---- MODULE Spec2Model ----
(***************************************************************************)
(* Attribute synchronisation of the Nimly Touch Pro integration.           *)
(*                                                                         *)
(* Seven entity classes mirror one remote Zigbee attribute each: a lock,   *)
(* a door sensor, a firmware sensor, an auto-relock number, two selectors  *)
(* (LED, sound volume) and a last-user placeholder.  Each entity is fed by *)
(* an initial read at activation, by a periodic timer, by push             *)
(* notifications (attribute_updated) and by user requests.                 *)
(*                                                                         *)
(* Every coroutine of the source suspends at each `await` of a remote      *)
(* call.  A suspended coroutine is an element of `tasks`; the remote       *)
(* layer answers the pending calls in any order, each with a result or a   *)
(* ZigbeeException.  The synchronous parts between two awaits are atomic   *)
(* (one event loop).                                                       *)
(*                                                                         *)
(* The entities share no state; the only coupling is the push fan-out of   *)
(* the endpoint, which each entity filters by attribute id.  A behaviour   *)
(* of Spec therefore observes one entity (`present`); SpecEndpoint         *)
(* observes the fan-out of pushes to all the listeners of the endpoint.    *)
(* The host adds an entity before it removes it: deactivation happens      *)
(* only after async_added_to_hass has returned.                            *)
(***************************************************************************)
EXTENDS Integers, Sequences, FiniteSets, TLC

VARIABLES
    present,      \* the entities constructed by the platform set-ups
    phase,        \* entity -> "created" | "activating" | "active" | "removed"
    listener,     \* entity -> is it registered with endpoint.add_listener
    timer,        \* entity -> is its async_track_time_interval registered
    onRemove,     \* entity -> registrations handed to async_on_remove
    value,        \* entity -> mirrored value (_state, _is_on, _attr_native_value, _current_option_index)
    available,    \* entity -> _available
    lastEvent,    \* the lock's _last_event_type, _last_event_user, _last_event_time
    now,          \* dt_util.now()
    tasks,        \* suspended coroutines, in the order their pending call was issued
    lastOp,       \* entity -> outcome of its most recent completed remote operation
    initReads,    \* entity -> attribute reads issued by async_added_to_hass
    obtained,     \* the entities whose value the device has returned, reported or accepted
    remote,       \* entity -> the raw value its attribute holds at the device once that
                  \* has settled; None while the device may answer anything
    pub,          \* entity -> async_write_ha_state calls made in the last step
    ev            \* the last step taken

vars == <<present, phase, listener, timer, onRemove, value, available,
          lastEvent, now, tasks, lastOp, initReads, obtained, remote, pub, ev>>

----------------------------------------------------------------------------
(* Bounds of the model *)

MaxTasks == 2
MaxTime == 1

----------------------------------------------------------------------------
(* const.py *)

ATTR_LOCK_STATE == 0
ATTR_LED_SETTINGS == 34
ATTR_SOUND_VOLUME == 36
ATTR_DOOR_STATE == 3
ATTR_BATTERY_PERCENTAGE == 33
ATTR_CURRENT_FILE_VERSION == 2
ATTR_AUTO_RELOCK_TIME == 35

EVENT_TYPE_RF_UNLOCK == "rf_unlock"
EVENT_TYPE_AUTO_LOCK == "auto_lock"

LED_SETTINGS_OPTIONS == <<"Off", "Low", "Medium", "High">>
SOUND_VOLUME_OPTIONS == <<"Off", "Low", "Medium", "High">>

DEFAULT_AUTO_RELOCK_TIME == 30

DOOR_STATE_OPEN == 0

STATE_LOCKED == "locked"
STATE_UNLOCKED == "unlocked"

native_min_value == 0
native_max_value == 3600

----------------------------------------------------------------------------
(* Python values: None, and a value that is not None *)

None == <<>>

Some(x) == <<x>>

Entities == {"lock", "door", "firmware", "relock", "led", "volume", "lastuser"}

\* entities whose reconcile issues a remote read
Polled == Entities \ {"lastuser"}

Selectors == {"led", "volume"}

\* the attribute id each entity compares a push against
AttrId(e) ==
    CASE e = "lock" -> ATTR_LOCK_STATE
      [] e = "door" -> ATTR_DOOR_STATE
      [] e = "relock" -> ATTR_AUTO_RELOCK_TIME
      [] e = "led" -> ATTR_LED_SETTINGS
      [] e = "volume" -> ATTR_SOUND_VOLUME
      [] e = "firmware" -> ATTR_CURRENT_FILE_VERSION

attr_options(e) ==
    IF e = "led" THEN LED_SETTINGS_OPTIONS ELSE SOUND_VOLUME_OPTIONS

----------------------------------------------------------------------------
(* What the remote layer can answer and what users can ask for.            *)
(* A read answers with a ZigbeeException ("fault"), with a result that     *)
(* lacks the attribute ("absent") or with the attribute's raw value.       *)

RawInt(e) ==
    CASE e \in {"lock", "door"} -> {Some(0), Some(1), Some(2)}
      [] e = "relock" -> {None, Some(native_min_value), Some(native_max_value + 1)}
      [] e \in Selectors -> {None, Some(-1), Some(0), Some(3), Some(4)}
      [] OTHER -> {Some(0)}

\* firmware versions: integers of 0 .. 2^32-1, each held as its two 16-bit
\* halves <<high, low>> (0x01020304, 0, 0x7FFFFFFF, 0x80000000 and
\* 0xFFFFFFFF), and one value that is not an int
RawVersion ==
    {[int |-> TRUE, v |-> Some(<<258, 772>>)], [int |-> TRUE, v |-> Some(<<0, 0>>)],
     [int |-> TRUE, v |-> Some(<<32767, 65535>>)],
     [int |-> TRUE, v |-> Some(<<32768, 0>>)],
     [int |-> TRUE, v |-> Some(<<65535, 65535>>)], [int |-> FALSE, v |-> None]}

Fault == [out |-> "fault", raw |-> None]

Absent == [out |-> "absent", raw |-> None]

Answers(e) ==
    {Fault, Absent}
      \cup {[out |-> "ok", raw |-> r] :
              r \in IF e = "firmware" THEN RawVersion ELSE RawInt(e)}

\* attribute ids a push can carry: the five of the door-lock cluster and one
\* that no entity mirrors
PushAttrIds ==
    {ATTR_LOCK_STATE, ATTR_DOOR_STATE, ATTR_AUTO_RELOCK_TIME,
     ATTR_LED_SETTINGS, ATTR_SOUND_VOLUME, ATTR_BATTERY_PERCENTAGE}

PushRaw(attrid) ==
    CASE attrid = ATTR_LOCK_STATE -> RawInt("lock")
      [] attrid = ATTR_DOOR_STATE -> RawInt("door")
      [] attrid = ATTR_AUTO_RELOCK_TIME -> RawInt("relock")
      [] attrid = ATTR_LED_SETTINGS -> RawInt("led")
      [] attrid = ATTR_SOUND_VOLUME -> RawInt("volume")
      [] OTHER -> {Some(0)}

\* labels a user can select: two of the list and one that is not in it
RequestedOptions == {"Low", "High", "Max"}

\* seconds a user can set: inside and outside [native_min_value, native_max_value]
RequestedSeconds == {native_min_value - 1, native_max_value, native_max_value + 1}

----------------------------------------------------------------------------
(* Decoding and encoding *)

\* positions counted from 1
MutIndex_OneBased(options, x) ==
    IF \E i \in 1..Len(options) : options[i] = x
    THEN Some(CHOOSE i \in 1..Len(options) : options[i] = x)
    ELSE None

\* list.index(x): the first position of x, counted from 0; None stands for
\* the ValueError of a label that is not in the list
index(options, x) ==
    IF \E i \in 1..Len(options) : options[i] = x
    THEN Some((CHOOSE i \in 1..Len(options) :
                  /\ options[i] = x
                  /\ \A j \in 1..(i - 1) : options[j] # x) - 1)
    ELSE None

\* self._attr_options[self._current_option_index]
current_option(e, idx) == attr_options(e)[idx + 1]

\* an index check that admits len(self._attr_options) itself
MutValidIndex_Inclusive(e, raw) ==
    /\ raw # None
    /\ 0 <= raw[1]
    /\ raw[1] <= Len(attr_options(e))

\* value is not None and 0 <= value < len(self._attr_options)
ValidIndex(e, raw) ==
    /\ raw # None
    /\ 0 <= raw[1]
    /\ raw[1] < Len(attr_options(e))

\* version >> n of a version <<high, low>>, for the shifts the code makes
ShiftRight(version, n) ==
    CASE n = 0 -> version[2]
      [] n = 8 -> version[1] * 256 + version[2] \div 256
      [] n = 16 -> version[1]
      [] n = 24 -> version[1] \div 256

\* x & 0xFF; the low 16 bits of version >> 0 are enough for it
Mask(x) == x % 256

\* the four fields printed in the opposite order
MutFormatVersion_LowByteFirst(version) ==
    LET major == Mask(ShiftRight(version, 24))
        minor == Mask(ShiftRight(version, 16))
        patch == Mask(ShiftRight(version, 8))
        build == Mask(ShiftRight(version, 0))
    IN  ToString(build) \o "." \o ToString(patch) \o "." \o ToString(minor)
          \o "." \o ToString(major)

\* f"{major}.{minor}.{patch}.{build}"
FormatVersion(version) ==
    LET major == Mask(ShiftRight(version, 24))
        minor == Mask(ShiftRight(version, 16))
        patch == Mask(ShiftRight(version, 8))
        build == Mask(ShiftRight(version, 0))
    IN  ToString(major) \o "." \o ToString(minor) \o "." \o ToString(patch)
          \o "." \o ToString(build)

----------------------------------------------------------------------------
(* The synchronous part of each reconcile after its read has answered.     *)
(* s is the entity's [value, available]; res is the answer of the read.    *)

_update_lock_state(s, res) ==
    CASE res.out = "fault" -> [s EXCEPT !.available = FALSE]
      [] res.out = "absent" -> s
      [] OTHER -> [value |-> IF res.raw = Some(1) THEN Some(STATE_LOCKED)
                                                  ELSE Some(STATE_UNLOCKED),
                   available |-> TRUE]

\* a reconcile that forgets the last known state when the read fails
Mut_update_door_state_ClearsOnFault(s, res) ==
    CASE res.out = "fault" -> [value |-> None, available |-> FALSE]
      [] res.out = "absent" -> s
      [] OTHER -> [value |-> Some(res.raw = Some(DOOR_STATE_OPEN)),
                   available |-> TRUE]

\* a reconcile that takes the raw value 1 for open
Mut_update_door_state_OneIsOpen(s, res) ==
    CASE res.out = "fault" -> [s EXCEPT !.available = FALSE]
      [] res.out = "absent" -> s
      [] OTHER -> [value |-> Some(res.raw = Some(1)), available |-> TRUE]

_update_door_state(s, res) ==
    CASE res.out = "fault" -> [s EXCEPT !.available = FALSE]
      [] res.out = "absent" -> s
      [] OTHER -> [value |-> Some(res.raw = Some(DOOR_STATE_OPEN)),
                   available |-> TRUE]

_update_firmware_version(s, res) ==
    CASE res.out = "fault" -> [s EXCEPT !.available = FALSE]
      [] res.out = "absent" -> s
      [] OTHER -> [value |-> IF res.raw.int THEN FormatVersion(res.raw.v[1])
                                            ELSE "str(version)",
                   available |-> TRUE]

\* a reconcile that does not set _available after a read that succeeded
Mut_update_auto_relock_time_KeepsFlag(s, res) ==
    CASE res.out = "fault" -> [s EXCEPT !.available = FALSE]
      [] res.out = "absent" -> s
      [] OTHER -> [value |-> IF res.raw # None THEN res.raw[1] ELSE s.value,
                   available |-> s.available]

_update_auto_relock_time(s, res) ==
    CASE res.out = "fault" -> [s EXCEPT !.available = FALSE]
      [] res.out = "absent" -> s
      [] OTHER -> [value |-> IF res.raw # None THEN res.raw[1] ELSE s.value,
                   available |-> TRUE]

_update_led_settings(s, res) ==
    CASE res.out = "fault" -> [s EXCEPT !.available = FALSE]
      [] res.out = "absent" -> s
      [] OTHER -> [value |-> IF ValidIndex("led", res.raw) THEN res.raw[1] ELSE s.value,
                   available |-> TRUE]

_update_sound_volume(s, res) ==
    CASE res.out = "fault" -> [s EXCEPT !.available = FALSE]
      [] res.out = "absent" -> s
      [] OTHER -> [value |-> IF ValidIndex("volume", res.raw) THEN res.raw[1] ELSE s.value,
                   available |-> TRUE]

Reconciled(e, s, res) ==
    CASE e = "lock" -> _update_lock_state(s, res)
      [] e = "door" -> _update_door_state(s, res)
      [] e = "firmware" -> _update_firmware_version(s, res)
      [] e = "relock" -> _update_auto_relock_time(s, res)
      [] e = "led" -> _update_led_settings(s, res)
      [] e = "volume" -> _update_sound_volume(s, res)

----------------------------------------------------------------------------
(* attribute_updated(attrid, value): the push callback of each class.      *)
(* v is the mirrored value; the result carries the new value and the       *)
(* number of async_write_ha_state calls.                                   *)

NoEvent == [type |-> None, user |-> None, time |-> None]

\* a push callback that takes every raw value but 0 for locked
MutLock_attribute_updated_ZeroUnlocked(v, le, attrid, raw, t) ==
    IF attrid = ATTR_LOCK_STATE
    THEN [value |-> IF raw = Some(0) THEN Some(STATE_UNLOCKED) ELSE Some(STATE_LOCKED),
          event |-> le,
          pub |-> 1]
    ELSE [value |-> v, event |-> le, pub |-> 0]

NimlyProLock_attribute_updated(v, le, attrid, raw, t) ==
    IF attrid = ATTR_LOCK_STATE
    THEN [value |-> IF raw = Some(1) THEN Some(STATE_LOCKED) ELSE Some(STATE_UNLOCKED),
          event |-> IF raw = Some(1) /\ le.type # Some(EVENT_TYPE_AUTO_LOCK)
                    THEN [le EXCEPT !.type = Some(EVENT_TYPE_AUTO_LOCK),
                                    !.time = Some(t)]
                    ELSE le,
          pub |-> 1]
    ELSE [value |-> v, event |-> le, pub |-> 0]

\* a push callback that does not filter by attribute id
MutDoor_attribute_updated_NoFilter(v, attrid, raw) ==
    [value |-> Some(raw = Some(DOOR_STATE_OPEN)), pub |-> 1]

NimlyProDoorStateSensor_attribute_updated(v, attrid, raw) ==
    IF attrid = ATTR_DOOR_STATE
    THEN [value |-> Some(raw = Some(DOOR_STATE_OPEN)), pub |-> 1]
    ELSE [value |-> v, pub |-> 0]

NimlyProAutoRelockTime_attribute_updated(v, attrid, raw) ==
    IF attrid = ATTR_AUTO_RELOCK_TIME /\ raw # None
    THEN [value |-> raw[1], pub |-> 1]
    ELSE [value |-> v, pub |-> 0]

NimlyProLEDSettingsSelect_attribute_updated(v, attrid, raw) ==
    IF attrid = ATTR_LED_SETTINGS /\ ValidIndex("led", raw)
    THEN [value |-> raw[1], pub |-> 1]
    ELSE [value |-> v, pub |-> 0]

\* the volume selector filtering by the LED selector's attribute id
MutVolume_attribute_updated_LedId(v, attrid, raw) ==
    IF attrid = ATTR_LED_SETTINGS /\ ValidIndex("volume", raw)
    THEN [value |-> raw[1], pub |-> 1]
    ELSE [value |-> v, pub |-> 0]

NimlyProSoundVolumeSelect_attribute_updated(v, attrid, raw) ==
    IF attrid = ATTR_SOUND_VOLUME /\ ValidIndex("volume", raw)
    THEN [value |-> raw[1], pub |-> 1]
    ELSE [value |-> v, pub |-> 0]

\* a push callback that takes the reported lock state for the user
MutLastUser_attribute_updated_Decodes(v, attrid, raw) ==
    IF attrid = ATTR_LOCK_STATE
    THEN [value |-> "User", pub |-> 1]
    ELSE [value |-> v, pub |-> 0]

NimlyProLastUserSensor_attribute_updated(v, attrid, raw) ==
    [value |-> v, pub |-> 0]

----------------------------------------------------------------------------
(* State *)

NoPub == [e \in Entities |-> 0]

\* async_write_ha_state called twice in a row
MutPublish_Twice(e) == [NoPub EXCEPT ![e] = 2]

\* one async_write_ha_state call by e
Publish(e) == [NoPub EXCEPT ![e] = 1]

\* the record of a step; fields a step has no use for keep these values
Step == [op |-> "", ent |-> "", kind |-> "", out |-> "", issued |-> "",
         attr |-> None, arg |-> None, to |-> {}, raised |-> ""]

\* a suspended coroutine: the entity, what started it ("activate", "timer",
\* "user"), the remote call it awaits, the value it was asked to set and the
\* raw value it wrote
Task(e, kind, wait, arg, raw) ==
    [ent |-> e, kind |-> kind, wait |-> wait, arg |-> arg, raw |-> raw]

Remove(seq, i) == SubSeq(seq, 1, i - 1) \o SubSeq(seq, i + 1, Len(seq))

\* __init__ of each class
InitialValue(e) ==
    CASE e = "lock" -> None
      [] e = "door" -> None
      [] e = "firmware" -> "Unknown"
      [] e = "lastuser" -> "Unknown"
      [] e = "relock" -> DEFAULT_AUTO_RELOCK_TIME
      [] e \in Selectors -> 0

\* the platforms construct the entities; a behaviour of Spec observes one
Setups == {{e} : e \in Entities}

Init ==
    /\ present \in Setups
    /\ phase = [e \in Entities |-> "created"]
    /\ listener = [e \in Entities |-> FALSE]
    /\ timer = [e \in Entities |-> FALSE]
    /\ onRemove = [e \in Entities |-> {}]
    /\ value = [e \in Entities |-> InitialValue(e)]
    /\ available = [e \in Entities |-> TRUE]
    /\ lastEvent = NoEvent
    /\ now = 0
    /\ tasks = <<>>
    /\ lastOp = [e \in Entities |-> "none"]
    /\ initReads = [e \in Entities |-> 0]
    /\ obtained = {}
    /\ remote = [e \in Entities |-> None]
    /\ pub = NoPub
    /\ ev = Step

----------------------------------------------------------------------------
(* Activation and deactivation *)

\* classes whose async_added_to_hass calls endpoint.add_listener
AddsListener == Entities \ {"firmware"}

\* the timer registered without handing its cancel callback to async_on_remove
MutReturned_TimerNotOnRemove(t) ==
    IF t.kind = "activate"
    THEN /\ timer' = [timer EXCEPT ![t.ent] = TRUE]
         /\ phase' = [phase EXCEPT ![t.ent] = "active"]
         /\ UNCHANGED onRemove
    ELSE UNCHANGED <<timer, onRemove, phase>>

\* the coroutine t returns; the one started by async_added_to_hass goes on
\* to register the timer
Returned(t) ==
    IF t.kind = "activate"
    THEN /\ timer' = [timer EXCEPT ![t.ent] = TRUE]
         /\ onRemove' = [onRemove EXCEPT ![t.ent] = @ \cup {"timer"}]
         /\ phase' = [phase EXCEPT ![t.ent] = "active"]
    ELSE UNCHANGED <<timer, onRemove, phase>>

\* the timer registered before the initial fetch instead of after it
Mut_async_added_to_hass_TimerFirst(e) ==
    /\ e \in present
    /\ phase[e] = "created"
    /\ IF e = "lastuser"
       THEN /\ listener' = [listener EXCEPT ![e] = TRUE]
            /\ timer' = [timer EXCEPT ![e] = TRUE]
            /\ onRemove' = [onRemove EXCEPT ![e] = {"listener", "timer"}]
            /\ phase' = [phase EXCEPT ![e] = "active"]
            /\ UNCHANGED <<tasks, initReads>>
       ELSE /\ Len(tasks) < MaxTasks
            /\ listener' = [listener EXCEPT ![e] = e \in AddsListener]
            /\ timer' = [timer EXCEPT ![e] = TRUE]
            /\ onRemove' = [onRemove EXCEPT ![e] =
                              IF e \in AddsListener THEN {"listener", "timer"}
                                                    ELSE {"timer"}]
            /\ phase' = [phase EXCEPT ![e] = "activating"]
            /\ tasks' = Append(tasks, Task(e, "activate", "read", None, None))
            /\ initReads' = [initReads EXCEPT ![e] = @ + 1]
    /\ pub' = NoPub
    /\ ev' = [Step EXCEPT !.op = "activate", !.ent = e, !.kind = "activate",
                          !.issued = IF e = "lastuser" THEN "" ELSE "read"]
    /\ UNCHANGED <<present, remote, obtained, value, available, lastEvent, now, lastOp>>

async_added_to_hass(e) ==
    /\ e \in present
    /\ phase[e] = "created"
    /\ IF e = "lastuser"
       THEN /\ listener' = [listener EXCEPT ![e] = TRUE]
            /\ timer' = [timer EXCEPT ![e] = TRUE]
            /\ onRemove' = [onRemove EXCEPT ![e] = {"listener", "timer"}]
            /\ phase' = [phase EXCEPT ![e] = "active"]
            /\ UNCHANGED <<tasks, initReads>>
       ELSE /\ Len(tasks) < MaxTasks
            /\ listener' = [listener EXCEPT ![e] = e \in AddsListener]
            /\ onRemove' = [onRemove EXCEPT ![e] =
                              IF e \in AddsListener THEN {"listener"} ELSE {}]
            /\ phase' = [phase EXCEPT ![e] = "activating"]
            /\ tasks' = Append(tasks, Task(e, "activate", "read", None, None))
            /\ initReads' = [initReads EXCEPT ![e] = @ + 1]
            /\ UNCHANGED timer
    /\ pub' = NoPub
    /\ ev' = [Step EXCEPT !.op = "activate", !.ent = e, !.kind = "activate",
                          !.issued = IF e = "lastuser" THEN "" ELSE "read"]
    /\ UNCHANGED <<present, remote, obtained, value, available, lastEvent, now, lastOp>>

\* the host removes the entity: every callback given to async_on_remove runs
async_remove(e) ==
    /\ e \in present
    /\ phase[e] = "active"
    /\ phase' = [phase EXCEPT ![e] = "removed"]
    /\ listener' = [listener EXCEPT ![e] = @ /\ "listener" \notin onRemove[e]]
    /\ timer' = [timer EXCEPT ![e] = @ /\ "timer" \notin onRemove[e]]
    /\ onRemove' = [onRemove EXCEPT ![e] = {}]
    /\ pub' = NoPub
    /\ ev' = [Step EXCEPT !.op = "remove", !.ent = e]
    /\ UNCHANGED <<present, remote, obtained, value, available, lastEvent, now, tasks, lastOp, initReads>>

----------------------------------------------------------------------------
(* The periodic timer *)

\* async_track_time_interval calls _async_update; the last-user sensor's
\* _async_update is `pass`
_async_update(e) ==
    /\ timer[e]
    /\ IF e = "lastuser"
       THEN UNCHANGED tasks
       ELSE /\ Len(tasks) < MaxTasks
            /\ tasks' = Append(tasks, Task(e, "timer", "read", None, None))
    /\ pub' = NoPub
    /\ ev' = [Step EXCEPT !.op = "tick", !.ent = e, !.kind = "timer",
                          !.issued = IF e = "lastuser" THEN "" ELSE "read"]
    /\ UNCHANGED <<present, remote, obtained, phase, listener, timer, onRemove, value, available,
                   lastEvent, now, lastOp, initReads>>

----------------------------------------------------------------------------
(* Exceptions *)

\* the exception a remote call raises for its outcome
Raises(out) == IF out = "fault" THEN "ZigbeeException" ELSE ""

\* lock_door() handled as if async_lock had no try around it
MutHandlers_LockUnguarded(wait) ==
    IF wait = "lock" THEN {} ELSE {"ZigbeeException"}

\* the exception classes of the except clause around each awaited remote call
Handlers(wait) ==
    CASE wait = "read" -> {"ZigbeeException"}
      [] wait = "events" -> {"ZigbeeException"}
      [] wait = "lock" -> {"ZigbeeException"}
      [] wait = "unlock" -> {"ZigbeeException"}
      [] wait = "write" -> {"ZigbeeException"}

\* what leaves the coroutine that awaited the call: nothing when the except
\* clause around the call names the exception
Propagates(wait, exc) == IF exc \in Handlers(wait) THEN "" ELSE exc

----------------------------------------------------------------------------
(* Reads *)

\* read_attributes([ATTR_...]) of tasks[i] answers with one of answers
ReadAnswered(i, answers) ==
    /\ tasks[i].wait = "read"
    /\ \E res \in answers :
         LET t == tasks[i]
             e == t.ent
             s == Reconciled(e, [value |-> value[e], available |-> available[e]], res)
             \* the lock goes on to _update_event_data unless the read raised
             more == e = "lock" /\ res.out # "fault"
         IN  /\ value' = [value EXCEPT ![e] = s.value]
             /\ available' = [available EXCEPT ![e] = s.available]
             /\ lastOp' = [lastOp EXCEPT ![e] = IF res.out = "fault" THEN "fault" ELSE "ok"]
             /\ obtained' = IF res.out = "ok" THEN obtained \cup {e} ELSE obtained
             /\ IF more
                THEN /\ tasks' = Append(Remove(tasks, i), [t EXCEPT !.wait = "events"])
                     /\ pub' = NoPub
                     /\ UNCHANGED <<timer, onRemove, phase>>
                ELSE /\ tasks' = Remove(tasks, i)
                     /\ pub' = Publish(e)
                     /\ Returned(t)
             /\ ev' = [Step EXCEPT !.op = "read", !.ent = e, !.kind = t.kind,
                                   !.out = res.out, !.arg = res.raw,
                                   !.issued = IF more THEN "events" ELSE "",
                                   !.raised = Propagates("read", Raises(res.out))]
    /\ UNCHANGED <<present, remote, listener, lastEvent, now, initReads>>

\* the device may answer anything
ReadAnswer(i) ==
    /\ i \in 1..Len(tasks)
    /\ ReadAnswered(i, Answers(tasks[i].ent))

\* the fault of the event-mask read reaching the except clause of
\* _update_lock_state, which clears _available
Mut_update_event_data_Demotes(i) ==
    /\ i \in 1..Len(tasks)
    /\ tasks[i].wait = "events"
    /\ \E out \in {"ok", "fault"} :
         /\ tasks' = Remove(tasks, i)
         /\ pub' = Publish(tasks[i].ent)
         /\ Returned(tasks[i])
         /\ available' = [available EXCEPT ![tasks[i].ent] = @ /\ out = "ok"]
         /\ ev' = [Step EXCEPT !.op = "events", !.ent = tasks[i].ent,
                               !.kind = tasks[i].kind, !.out = out,
                               !.raised = Propagates("events", Raises(out))]
    /\ UNCHANGED <<present, remote, obtained, listener, value, lastEvent, now,
                   lastOp, initReads>>

\* the read of the three operation event masks answers, with a result or a
\* ZigbeeException that _update_event_data swallows
_update_event_data(i) ==
    /\ i \in 1..Len(tasks)
    /\ tasks[i].wait = "events"
    /\ \E out \in {"ok", "fault"} :
         /\ tasks' = Remove(tasks, i)
         /\ pub' = Publish(tasks[i].ent)
         /\ Returned(tasks[i])
         /\ ev' = [Step EXCEPT !.op = "events", !.ent = tasks[i].ent,
                               !.kind = tasks[i].kind, !.out = out,
                               !.raised = Propagates("events", Raises(out))]
    /\ UNCHANGED <<present, remote, obtained, listener, value, available, lastEvent,
                   now, lastOp, initReads>>

----------------------------------------------------------------------------
(* User requests: each issues its remote call and suspends *)

Request(e, wait, arg, raw) ==
    /\ e \in present
    /\ phase[e] = "active"
    /\ Len(tasks) < MaxTasks
    /\ tasks' = Append(tasks, Task(e, "user", wait, arg, raw))
    /\ pub' = NoPub
    /\ ev' = [Step EXCEPT !.op = "request", !.ent = e, !.kind = "user",
                          !.issued = wait, !.arg = arg]
    /\ UNCHANGED <<present, remote, obtained, phase, listener, timer, onRemove, value, available,
                   lastEvent, now, lastOp, initReads>>

async_lock == Request("lock", "lock", Some(STATE_LOCKED), None)

async_unlock == Request("lock", "unlock", Some(STATE_UNLOCKED), None)

\* write_attributes({ATTR_AUTO_RELOCK_TIME: int(value)}), whatever the value
async_set_native_value(v) == Request("relock", "write", Some(v), Some(v))

\* option_index = self._attr_options.index(option) raises ValueError for a
\* label that is not an option, before anything else happens
async_select_option(e, option) ==
    LET option_index == index(attr_options(e), option)
    IN  IF option_index = None
        THEN /\ e \in present
             /\ phase[e] = "active"
             /\ pub' = NoPub
             /\ ev' = [Step EXCEPT !.op = "request", !.ent = e, !.kind = "user",
                                   !.out = "ValueError", !.arg = Some(option),
                                   !.raised = "ValueError"]
             /\ UNCHANGED <<present, remote, obtained, phase, listener, timer, onRemove, value,
                            available, lastEvent, now, tasks, lastOp, initReads>>
        ELSE Request(e, "write", Some(option), option_index)

\* the optimistic update made before the await instead of after it
MutWritten_BeforeAwait(t, out, v) ==
    CASE t.wait = "lock" -> Some(STATE_LOCKED)
      [] t.wait = "unlock" -> Some(STATE_UNLOCKED)
      [] t.ent = "relock" -> t.arg[1]
      [] OTHER -> t.raw[1]

\* async_lock setting the state of async_unlock
MutWritten_LockUnlocks(t, out, v) ==
    CASE out # "ok" -> v
      [] t.wait = "lock" -> Some(STATE_UNLOCKED)
      [] t.wait = "unlock" -> Some(STATE_UNLOCKED)
      [] t.ent = "relock" -> t.arg[1]
      [] OTHER -> t.raw[1]

\* the mirrored value after the remote call of request t has answered: set
\* after the await, left alone by the except branch
Written(t, out, v) ==
    CASE out # "ok" -> v
      [] t.wait = "lock" -> Some(STATE_LOCKED)
      [] t.wait = "unlock" -> Some(STATE_UNLOCKED)
      [] t.ent = "relock" -> t.arg[1]
      [] OTHER -> t.raw[1]

\* async_lock recording an RF event as async_unlock does
MutStamped_LockStampsToo(t, out, le, time) ==
    IF out = "ok" /\ t.wait \in {"lock", "unlock"}
    THEN [type |-> Some(EVENT_TYPE_RF_UNLOCK), user |-> Some("Home Assistant"),
          time |-> Some(time)]
    ELSE le

\* async_unlock records an RF event
Stamped(t, out, le, time) ==
    IF out = "ok" /\ t.wait = "unlock"
    THEN [type |-> Some(EVENT_TYPE_RF_UNLOCK), user |-> Some("Home Assistant"),
          time |-> Some(time)]
    ELSE le

\* the except branch issuing the failed call again
Mut_WriteAnswer_RetriesOnFault(i) ==
    /\ i \in 1..Len(tasks)
    /\ tasks[i].wait \in {"lock", "unlock", "write"}
    /\ \E out \in {"ok", "fault"} :
         LET t == tasks[i]
             e == t.ent
         IN  /\ value' = [value EXCEPT ![e] = Written(t, out, value[e])]
             /\ lastEvent' = Stamped(t, out, lastEvent, now)
             /\ pub' = IF out = "ok" THEN Publish(e) ELSE NoPub
             /\ lastOp' = [lastOp EXCEPT ![e] = out]
             /\ obtained' = IF out = "ok" THEN obtained \cup {e} ELSE obtained
             /\ tasks' = IF out = "fault" THEN tasks ELSE Remove(tasks, i)
             /\ ev' = [Step EXCEPT !.op = "write", !.ent = e, !.kind = t.kind,
                                   !.out = out, !.arg = t.arg,
                                   !.raised = Propagates(t.wait, Raises(out))]
    /\ UNCHANGED <<present, remote, phase, listener, timer, onRemove, available, now, initReads>>

\* lock_door(), unlock_door() or write_attributes() of tasks[i] answers
WriteAnswer(i) ==
    /\ i \in 1..Len(tasks)
    /\ tasks[i].wait \in {"lock", "unlock", "write"}
    /\ \E out \in {"ok", "fault"} :
         LET t == tasks[i]
             e == t.ent
         IN  /\ value' = [value EXCEPT ![e] = Written(t, out, value[e])]
             /\ lastEvent' = Stamped(t, out, lastEvent, now)
             /\ pub' = IF out = "ok" THEN Publish(e) ELSE NoPub
             /\ lastOp' = [lastOp EXCEPT ![e] = out]
             /\ obtained' = IF out = "ok" THEN obtained \cup {e} ELSE obtained
             /\ tasks' = Remove(tasks, i)
             /\ ev' = [Step EXCEPT !.op = "write", !.ent = e, !.kind = t.kind,
                                   !.out = out, !.arg = t.arg,
                                   !.raised = Propagates(t.wait, Raises(out))]
    /\ UNCHANGED <<present, remote, phase, listener, timer, onRemove, available, now, initReads>>

----------------------------------------------------------------------------
(* Push notifications: the endpoint calls attribute_updated of every       *)
(* registered listener, one after the other, without suspending            *)

Pushed(e, attrid, raw) ==
    CASE e = "lock" -> NimlyProLock_attribute_updated(value[e], lastEvent, attrid, raw, now)
      [] e = "door" ->
           [event |-> lastEvent] @@ NimlyProDoorStateSensor_attribute_updated(value[e], attrid, raw)
      [] e = "relock" ->
           [event |-> lastEvent] @@ NimlyProAutoRelockTime_attribute_updated(value[e], attrid, raw)
      [] e = "led" ->
           [event |-> lastEvent] @@ NimlyProLEDSettingsSelect_attribute_updated(value[e], attrid, raw)
      [] e = "volume" ->
           [event |-> lastEvent] @@ NimlyProSoundVolumeSelect_attribute_updated(value[e], attrid, raw)
      [] OTHER ->
           [event |-> lastEvent] @@ NimlyProLastUserSensor_attribute_updated(value[e], attrid, raw)

\* the attributes the device reports: those the constructed entities mirror
\* and the battery level, which no entity mirrors; the last-user sensor is
\* shown every report of the cluster
Reported ==
    {AttrId(e) : e \in present \cap (Polled \ {"firmware"})}
      \cup {ATTR_BATTERY_PERCENTAGE}
      \cup (IF "lastuser" \in present THEN PushAttrIds ELSE {})

Push(attrid, raw) ==
    /\ attrid \in Reported
    /\ \E e \in Entities : listener[e]
    /\ value' = [e \in Entities |->
                   IF listener[e] THEN Pushed(e, attrid, raw).value ELSE value[e]]
    /\ lastEvent' = IF listener["lock"] THEN Pushed("lock", attrid, raw).event
                                        ELSE lastEvent
    /\ pub' = [e \in Entities |-> IF listener[e] THEN Pushed(e, attrid, raw).pub ELSE 0]
    /\ ev' = [Step EXCEPT !.op = "push", !.attr = Some(attrid), !.arg = raw,
                          !.to = {e \in Entities : listener[e]}]
    /\ obtained' = obtained \cup {e \in Polled : listener[e] /\ AttrId(e) = attrid}
    /\ UNCHANGED <<present, remote, phase, listener, timer, onRemove, available, now,
                   tasks, lastOp, initReads>>

----------------------------------------------------------------------------
(* Time passes.  Only the lock reads the clock, and only to stamp its last *)
(* event, so an instant that no stamp carries need not be told from the    *)
(* next one: the clock advances once the current instant has been stamped. *)

Clock ==
    /\ lastEvent.time = Some(now)
    /\ now < MaxTime
    /\ now' = now + 1
    /\ pub' = NoPub
    /\ ev' = [Step EXCEPT !.op = "clock"]
    /\ UNCHANGED <<present, remote, obtained, phase, listener, timer, onRemove, value, available,
                   lastEvent, tasks, lastOp, initReads>>

----------------------------------------------------------------------------

Next ==
    \/ \E e \in Entities : async_added_to_hass(e)
    \/ \E e \in Entities : async_remove(e)
    \/ \E e \in Entities : _async_update(e)
    \/ \E i \in 1..MaxTasks + 1 : ReadAnswer(i)
    \/ \E i \in 1..MaxTasks + 1 : _update_event_data(i)
    \/ \E i \in 1..MaxTasks + 1 : WriteAnswer(i)
    \/ async_lock
    \/ async_unlock
    \/ \E v \in RequestedSeconds : async_set_native_value(v)
    \/ \E e \in Selectors, option \in RequestedOptions : async_select_option(e, option)
    \/ \E a \in PushAttrIds : \E raw \in PushRaw(a) : Push(a, raw)
    \/ Clock

Spec == Init /\ [][Next]_vars

----------------------------------------------------------------------------
(* The push fan-out of the door-lock endpoint.  Every entity of the        *)
(* door-lock cluster has been activated and its initial read has answered  *)
(* without the attribute; from then on the device only reports.            *)

DoorLockEntities == {"lock", "door", "relock", "led", "volume", "lastuser"}

InitEndpoint ==
    /\ present = DoorLockEntities
    /\ phase = [e \in Entities |-> IF e \in DoorLockEntities THEN "active" ELSE "created"]
    /\ listener = [e \in Entities |-> e \in DoorLockEntities]
    /\ timer = [e \in Entities |-> e \in DoorLockEntities]
    /\ onRemove = [e \in Entities |->
                     IF e \in DoorLockEntities THEN {"listener", "timer"} ELSE {}]
    /\ value = [e \in Entities |-> InitialValue(e)]
    /\ available = [e \in Entities |-> TRUE]
    /\ lastEvent = NoEvent
    /\ now = 0
    /\ tasks = <<>>
    /\ lastOp = [e \in Entities |-> IF e \in DoorLockEntities \cap Polled THEN "ok" ELSE "none"]
    /\ initReads = [e \in Entities |-> IF e \in DoorLockEntities \cap Polled THEN 1 ELSE 0]
    /\ obtained = {}
    /\ remote = [e \in Entities |-> None]
    /\ pub = NoPub
    /\ ev = Step

NextEndpoint ==
    \/ \E a \in PushAttrIds : \E raw \in PushRaw(a) : Push(a, raw)
    \/ Clock

SpecEndpoint == InitEndpoint /\ [][NextEndpoint]_vars

----------------------------------------------------------------------------
(* Properties *)

\* what the entity shows as its value: the state, is_on, native_value, or
\* the label current_option
Shown(e) ==
    CASE e \in {"lock", "door"} -> value[e]
      [] e \in Selectors -> Some(current_option(e, value[e]))
      [] OTHER -> Some(value[e])

\* the entities a push of attribute id a is meant for
Mirrors(e, a) == e \in Polled \ {"firmware"} /\ a = Some(AttrId(e))

\* C1: a reconcile whose read raises a communication fault leaves the
\* mirrored value unchanged and sets the availability flag to false; a
\* reconcile whose read succeeds and returns the attribute sets the flag to
\* true, whatever happened before.
C1_FaultedReadDemotes ==
    [][ev'.op = "read" =>
         /\ ev'.out = "fault" =>
              /\ value'[ev'.ent] = value[ev'.ent]
              /\ ~available'[ev'.ent]
         /\ ev'.out = "ok" => available'[ev'.ent]]_vars

C1_Witness ==
    /\ ev.op = "read"
    /\ ev.out = "fault"
    /\ ev.kind = "timer"
    /\ ~available[ev.ent]
    /\ value[ev.ent] # InitialValue(ev.ent)

\* C2 (as claimed): once an entity has completed a remote operation, its
\* availability flag is false exactly when the most recent remote operation
\* for its attribute (read, write or command) raised a communication fault.
C2_AvailabilityTracksLastOperation ==
    \A e \in present :
        lastOp[e] # "none" => (~available[e] <=> lastOp[e] = "fault")

\* C3: when the remote write or command of a request raises a communication
\* fault, the mirrored value is what it was and the request publishes
\* nothing, neither when it is issued nor when it fails.
C3_FailedWriteChangesNothing ==
    [][/\ (ev'.op = "write" /\ ev'.out = "fault") =>
            /\ value'[ev'.ent] = value[ev'.ent]
            /\ pub' = NoPub
       /\ ev'.op = "request" => (value' = value /\ pub' = NoPub)]_vars

C3_Witness ==
    /\ ev.op = "write"
    /\ ev.out = "fault"
    /\ ev.ent = "relock"
    /\ ev.arg = Some(native_max_value)
    /\ value["relock"] = native_min_value

\* C4: when the remote write or command of a request succeeds, the entity
\* shows the requested value right after, that step publishes state exactly
\* once, and no step of the request issues a remote read.
C4_SuccessfulWriteIsTrusted ==
    /\ (ev.op = "write" /\ ev.out = "ok") =>
         /\ Shown(ev.ent) = ev.arg
         /\ pub = Publish(ev.ent)
    /\ ev.op = "request" => pub = NoPub
    /\ ev.kind = "user" => ev.issued \notin {"read", "events"}

C4_Witness ==
    /\ ev.op = "write"
    /\ ev.out = "ok"
    /\ ev.ent = "led"
    /\ ev.arg = Some("High")
    /\ value["led"] = 3

\* C5: the mirrored value of an entity changes only in a step that is a
\* reconcile of that entity whose read succeeded, a push carrying the
\* entity's own attribute id, or the completion of a successful write or
\* command of that entity.
C5_ValueChangesOnlyBySync ==
    [][\A e \in Entities :
         value'[e] # value[e] =>
           \/ ev'.op = "read" /\ ev'.ent = e /\ ev'.out = "ok"
           \/ ev'.op = "push" /\ Mirrors(e, ev'.attr)
           \/ ev'.op = "write" /\ ev'.ent = e /\ ev'.out = "ok"]_vars

C5_Witness ==
    /\ ev.op = "push"
    /\ ev.attr = Some(ATTR_AUTO_RELOCK_TIME)
    /\ value["relock"] = native_max_value + 1
    /\ Len(tasks) > 0

\* C6: once an entity has been removed, its timer and its push listener are
\* unregistered: no timer tick starts a reconcile of it and no push is
\* delivered to it.
C6_RemovalUnregisters ==
    /\ \A e \in Entities : phase[e] = "removed" => (~timer[e] /\ ~listener[e])
    /\ ev.op = "tick" => phase[ev.ent] # "removed"
    /\ ev.op = "push" => \A e \in ev.to : phase[e] # "removed"

C6_Witness ==
    \E e \in {"lock", "door", "relock", "led", "volume"} :
        /\ phase[e] = "removed"
        /\ ev.op = "read"
        /\ ev.ent = e
        /\ ev.kind = "timer"

\* C7 (as claimed): for every entity kind, activation registers the push
\* listener and the timer and performs exactly one reconcile, which
\* completes before the first timer-driven reconcile can start.
C7_EveryKindActivatesAlike ==
    \A e \in present :
        /\ phase[e] = "active" => (listener[e] /\ timer[e] /\ initReads[e] = 1)
        /\ timer[e] => \A i \in 1..Len(tasks) : tasks[i].kind # "activate"

\* C7 (amended): the lock, the door sensor, the auto-relock number and the
\* two selectors register the listener, perform exactly one reconcile and
\* register the timer when it has completed; the firmware sensor does the
\* same without a listener; the last-user sensor registers listener and
\* timer and performs no reconcile.
C7_ActivationPerKind ==
    \A e \in present :
        /\ phase[e] = "active" =>
             /\ timer[e]
             /\ listener[e] <=> e # "firmware"
             /\ initReads[e] = IF e = "lastuser" THEN 0 ELSE 1
        /\ phase[e] = "activating" =>
             /\ ~timer[e]
             /\ listener[e] <=> e # "firmware"
             /\ initReads[e] = 1
             /\ \E i \in 1..Len(tasks) : tasks[i].ent = e /\ tasks[i].kind = "activate"
        /\ timer[e] => \A i \in 1..Len(tasks) : tasks[i].kind # "activate"
        /\ (ev.op = "tick" /\ ev.ent = e) => phase[e] = "active"

C7_Witness ==
    /\ ev.op = "tick"
    /\ ev.ent = "firmware"
    /\ ~listener["firmware"]
    /\ initReads["firmware"] = 1

\* C8: a push whose attribute id is not the entity's own leaves the
\* entity's mirrored value and availability flag unchanged and publishes
\* nothing for it; a push of another attribute than the lock state leaves
\* the last event unchanged; a single push changes the value of at most one
\* entity of the endpoint.
C8_ForeignPushIgnored ==
    [][ev'.op = "push" =>
         /\ \A e \in Entities :
              ~Mirrors(e, ev'.attr) =>
                 /\ value'[e] = value[e]
                 /\ available'[e] = available[e]
                 /\ pub'[e] = 0
         /\ ev'.attr # Some(ATTR_LOCK_STATE) => lastEvent' = lastEvent
         /\ Cardinality({e \in Entities : value'[e] # value[e]}) <= 1]_vars

C8_Witness ==
    /\ ev.op = "push"
    /\ ev.attr = Some(ATTR_LED_SETTINGS)
    /\ ev.to = DoorLockEntities
    /\ value["led"] = 3
    /\ value["volume"] = 0
    /\ value["relock"] = native_max_value + 1
    /\ pub = Publish("led")

\* C9: a raw index outside 0..3, or an absent value, delivered to a
\* selector by a read or a push leaves the option unchanged; the stored
\* index stays within 0..3 and current_option is one of the four labels.
C9_SelectorIndexInRange ==
    [][\A e \in Selectors :
         /\ value'[e] \in 0..3
         /\ current_option(e, value'[e]) \in {"Off", "Low", "Medium", "High"}
         /\ ( /\ \/ ev'.op = "read" /\ ev'.ent = e
                 \/ ev'.op = "push" /\ Mirrors(e, ev'.attr)
              /\ ~ValidIndex(e, ev'.arg) )
            => value'[e] = value[e]]_vars

C9_Witness ==
    /\ ev.op = "push"
    /\ ev.attr = Some(ATTR_SOUND_VOLUME)
    /\ ev.arg = Some(4)
    /\ value["volume"] = 3

\* the accepted domain of a request: a label of the option list, seconds
\* within [native_min_value, native_max_value], lock or unlock
Accepted(e, arg) ==
    CASE e \in Selectors -> \E i \in 1..Len(attr_options(e)) : attr_options(e)[i] = arg[1]
      [] e = "relock" -> native_min_value <= arg[1] /\ arg[1] <= native_max_value
      [] OTHER -> TRUE

\* C10 (as claimed): a request whose value is outside the accepted domain
\* is rejected with an error before any remote write is issued, and leaves
\* the mirrored value unchanged with no publication.
C10_InvalidRequestRejected ==
    [][(ev'.op = "request" /\ ~Accepted(ev'.ent, ev'.arg)) =>
         /\ ev'.out = "ValueError"
         /\ ev'.issued = ""
         /\ tasks' = tasks
         /\ value' = value
         /\ pub' = NoPub]_vars

\* C11: no communication fault raised by a remote read, write or lock/unlock
\* command leaves an entity operation: the step that receives the fault
\* raises nothing, a reconcile goes on to its publication and an activation
\* goes on to register its timer and become active.
C11_NoFaultEscapes ==
    /\ ev.raised # "ZigbeeException"
    /\ ev.out = "fault" =>
         /\ ev.raised = ""
         /\ ev.op \in {"read", "events"} => pub = Publish(ev.ent)
         /\ ev.kind = "activate" => phase[ev.ent] = "active" /\ timer[ev.ent]

C11_Witness ==
    /\ ev.op = "write"
    /\ ev.ent = "lock"
    /\ ev.arg = Some(STATE_LOCKED)
    /\ ev.out = "fault"
    /\ ev.raised = ""

\* C12: every reconcile of a polled entity ends with exactly one state
\* publication, whether the read returned the attribute, returned without it
\* or raised a communication fault: the step that ends the reconcile
\* publishes once for the entity, and the steps before it (the start of the
\* read, and for the lock the answer of the state read that goes on to the
\* event masks) publish nothing.
C12_ReconcilePublishesOnce ==
    /\ ((ev.op = "read" /\ ev.issued = "") \/ ev.op = "events") =>
         /\ ev.out \in {"ok", "absent", "fault"}
         /\ pub[ev.ent] = 1
         /\ \A o \in Entities \ {ev.ent} : pub[o] = 0
    /\ (ev.op \in {"tick", "activate"} \/ (ev.op = "read" /\ ev.issued # "")) =>
         \A o \in Entities : pub[o] = 0
    /\ (ev.op = "read" /\ ev.issued # "") => (ev.ent = "lock" /\ ev.out # "fault")

C12_Witness ==
    /\ ev.op = "read"
    /\ ev.ent = "firmware"
    /\ ev.out = "absent"
    /\ pub["firmware"] = 1

\* C13 (as claimed): an entity whose availability flag was cleared by a
\* failed read becomes available again at the next successful poll (a read
\* that returns the attribute) or at the next push that carries its own
\* attribute id, whichever comes first; the
\* step that clears the flag leaves the mirrored value as it was.
C13_PollOrPushRestores ==
    [][\A e \in present :
         /\ (/\ ~available[e]
             /\ \/ ev'.op = "read" /\ ev'.ent = e /\ ev'.out = "ok"
                \/ ev'.op = "push" /\ e \in ev'.to /\ Mirrors(e, ev'.attr))
            => available'[e]
         /\ (available[e] /\ ~available'[e]) => value'[e] = value[e]]_vars

\* C14 (as claimed): in every reachable state the mirrored auto-relock value
\* lies within [0, 3600], whatever raw values reads and pushes deliver and
\* whatever a set-value request asks for.
C14_RelockWithinRange ==
    "relock" \in present =>
        (native_min_value <= value["relock"] /\ value["relock"] <= native_max_value)

\* the entity shows no device value: None, or for the two text sensors the
\* placeholder "Unknown"
Unobtained(e) ==
    IF e \in {"firmware", "lastuser"} THEN value[e] = "Unknown" ELSE Shown(e) = None

\* C15 (as claimed): for every entity kind the mirrored value is absent from
\* construction until the first successful read, matching push or
\* successful write: an entity whose value the device has never returned,
\* reported or accepted shows no device value.
C15_AbsentUntilObtained ==
    \A e \in present : e \notin obtained => Unobtained(e)

\* the remote writes and lock/unlock commands in flight
WriteCalls(ts) ==
    Cardinality({i \in 1..Len(ts) : ts[i].wait \in {"lock", "unlock", "write"}})

\* C16: a failed write or command is never retried: only a user request
\* issues a remote write or command, and at most one; the answer of a write
\* or command, failed or not, ends that call and issues nothing; timer
\* ticks, reads, activations and pushes never issue one.
C16_FailedWriteNotRetried ==
    [][/\ WriteCalls(tasks') > WriteCalls(tasks) =>
            /\ ev'.op = "request"
            /\ ev'.issued \in {"lock", "unlock", "write"}
            /\ WriteCalls(tasks') = WriteCalls(tasks) + 1
       /\ ev'.op = "write" =>
            /\ ev'.issued = ""
            /\ WriteCalls(tasks') = WriteCalls(tasks) - 1
       /\ ev'.op \in {"tick", "activate", "read", "events", "push"} =>
            WriteCalls(tasks') = WriteCalls(tasks)]_vars

C16_Witness ==
    /\ ev.op = "write"
    /\ ev.ent = "led"
    /\ ev.out = "fault"
    /\ WriteCalls(tasks) = 0

\* the suspended coroutines of entity e that were started by kind k
Suspended(e, k) ==
    {i \in 1..Len(tasks) : tasks[i].ent = e /\ tasks[i].kind = k}

\* the remote calls of entity e in flight
InFlight(e) ==
    Cardinality({i \in 1..Len(tasks) : tasks[i].ent = e})

\* C17 (as claimed): operations of one entity never overlap: at most one
\* remote call of the entity is in flight, and no push callback of the
\* entity runs while one of its operations is suspended.
C17_NoOverlap ==
    \A e \in present :
        /\ InFlight(e) <= 1
        /\ (ev.op = "push" /\ e \in ev.to) => InFlight(e) = 0

\* C17 (amended): operations of one entity can overlap, a timer tick, a push
\* or a request starting while another operation is suspended; only the
\* reconcile of the activation is alone among the reconciles: there is at
\* most one, and while it is suspended the timer is not registered and no
\* timer-driven reconcile of the entity is in flight.
C17_ActivationReconcileAlone ==
    \A e \in present :
        /\ Cardinality(Suspended(e, "activate")) <= 1
        /\ Suspended(e, "activate") # {} =>
             /\ phase[e] = "activating"
             /\ ~timer[e]
             /\ Suspended(e, "timer") = {}

C17_Witness ==
    /\ ev.op = "push"
    /\ "lock" \in ev.to
    /\ ev.attr = Some(ATTR_LOCK_STATE)
    /\ phase["lock"] = "activating"
    /\ Suspended("lock", "activate") # {}

\* C18: for each selector and every index i in 0..3, encoding the label
\* decoded from i gives i again; a request for "High" issues a write of raw
\* 3 (and one for "Low" a write of raw 1), a read that returns raw 3 makes
\* current_option "High", and after a successful write the entity shows
\* the label that was requested.
C18_SelectorRoundTrip ==
    /\ \A e \in Selectors : \A i \in 0..3 :
         index(attr_options(e), current_option(e, i)) = Some(i)
    /\ (ev.op = "request" /\ ev.ent \in Selectors /\ ev.issued = "write") =>
         /\ ev.arg = Some("High") => tasks[Len(tasks)].raw = Some(3)
         /\ ev.arg = Some("Low") => tasks[Len(tasks)].raw = Some(1)
    /\ (ev.op = "read" /\ ev.ent \in Selectors /\ ev.out = "ok" /\ ev.arg = Some(3)) =>
         Shown(ev.ent) = Some("High")
    /\ (ev.op = "write" /\ ev.ent \in Selectors /\ ev.out = "ok") =>
         Shown(ev.ent) = ev.arg

C18_Witness ==
    /\ ev.op = "read"
    /\ ev.ent = "led"
    /\ ev.out = "ok"
    /\ ev.arg = Some(3)
    /\ lastOp["led"] = "ok"
    /\ Shown("led") = Some("High")

\* C19: for every raw integer v of 0 .. 2^32-1 that a successful firmware
\* read returns, the sensor's value is the four bytes of v, most significant
\* first, joined by dots, whatever the sensor showed before: the bytes are
\* the digits of v in base 256, two to each 16-bit half.
C19_FirmwareDottedBytes ==
    (ev.op = "read" /\ ev.ent = "firmware" /\ ev.out = "ok" /\ ev.arg.int) =>
        \E b3 \in 0..255, b2 \in 0..255 :
            /\ b3 * 256 + b2 = ev.arg.v[1][1]
            /\ \E b1 \in 0..255, b0 \in 0..255 :
                 /\ b1 * 256 + b0 = ev.arg.v[1][2]
                 /\ value["firmware"] =
                      ToString(b3) \o "." \o ToString(b2) \o "."
                        \o ToString(b1) \o "." \o ToString(b0)

C19_Witness ==
    /\ ev.op = "read"
    /\ ev.ent = "firmware"
    /\ ev.out = "ok"
    /\ ev.arg = [int |-> TRUE, v |-> Some(<<32768, 0>>)]
    /\ value["firmware"] = "128.0.0.0"
    /\ lastOp["firmware"] = "ok"

\* C20: the lock decodes raw 1 as locked and every other raw value as
\* unlocked, and does so alike on the read path and on the push path: after
\* a read that returned the lock state, and after a push of the lock state
\* to the registered lock, the state is locked if the raw value was 1 and
\* unlocked otherwise.
C20_LockDecodedAlike ==
    LET viaRead == ev.op = "read" /\ ev.ent = "lock" /\ ev.out = "ok"
        viaPush == ev.op = "push" /\ ev.attr = Some(ATTR_LOCK_STATE) /\ "lock" \in ev.to
    IN  (viaRead \/ viaPush) =>
            value["lock"] = IF ev.arg = Some(1) THEN Some(STATE_LOCKED)
                                                ELSE Some(STATE_UNLOCKED)

C20_Witness ==
    /\ ev.op = "push"
    /\ ev.attr = Some(ATTR_LOCK_STATE)
    /\ "lock" \in ev.to
    /\ ev.arg = Some(2)
    /\ value["lock"] = Some(STATE_UNLOCKED)

\* C21: the door sensor decodes raw 0 as open (is_on true) and raw 1 as
\* closed (is_on false), alike after a read that returned the door state and
\* after a push of the door state to the registered sensor; the sensor never
\* issues a remote write: every remote call it awaits is a read.
C21_DoorDecodedAlike ==
    LET viaRead == ev.op = "read" /\ ev.ent = "door" /\ ev.out = "ok"
        viaPush == ev.op = "push" /\ ev.attr = Some(ATTR_DOOR_STATE) /\ "door" \in ev.to
    IN  /\ (viaRead \/ viaPush) =>
            /\ ev.arg = Some(0) => value["door"] = Some(TRUE)
            /\ ev.arg = Some(1) => value["door"] = Some(FALSE)
        /\ \A i \in 1..Len(tasks) : tasks[i].ent = "door" => tasks[i].wait = "read"
        /\ ev.ent = "door" => ev.issued \in {"", "read"}

C21_Witness ==
    /\ ev.op = "read"
    /\ ev.ent = "door"
    /\ ev.kind = "timer"
    /\ ev.out = "ok"
    /\ ev.arg = Some(1)
    /\ value["door"] = Some(FALSE)

\* C22: a successful unlock command sets the lock state to unlocked and
\* stamps the last event with type rf_unlock, actor "Home Assistant" and the
\* current time, in the step that publishes; an unlock command that fails
\* with a communication fault leaves the lock state and every last-event
\* field unchanged and publishes nothing; a lock command, successful or not,
\* never changes the last-event fields.
C22_UnlockStampsRfEvent ==
    [][(ev'.op = "write" /\ ev'.ent = "lock") =>
         /\ (ev'.arg = Some(STATE_UNLOCKED) /\ ev'.out = "ok") =>
              /\ value'["lock"] = Some(STATE_UNLOCKED)
              /\ lastEvent'.type = Some(EVENT_TYPE_RF_UNLOCK)
              /\ lastEvent'.user = Some("Home Assistant")
              /\ lastEvent'.time = Some(now)
              /\ now' = now
              /\ pub'["lock"] = 1
         /\ (ev'.arg = Some(STATE_UNLOCKED) /\ ev'.out = "fault") =>
              /\ value'["lock"] = value["lock"]
              /\ lastEvent' = lastEvent
              /\ pub'["lock"] = 0
         /\ ev'.arg = Some(STATE_LOCKED) => lastEvent' = lastEvent]_vars

C22_Witness ==
    /\ ev.op = "write"
    /\ ev.ent = "lock"
    /\ ev.arg = Some(STATE_UNLOCKED)
    /\ ev.out = "ok"
    /\ now = 1
    /\ lastEvent = [type |-> Some(EVENT_TYPE_RF_UNLOCK), user |-> Some("Home Assistant"),
                    time |-> Some(1)]

\* C23 (as claimed): every push that shows the lock entering the locked
\* state (raw 1 while the entity is not locked) with no local lock command
\* of the entity in flight is stamped as an automatic-lock event carrying
\* the time of that push, also when an earlier automatic lock was stamped
\* before.
C23_EveryAutoLockStamped ==
    [][(/\ ev'.op = "push"
        /\ ev'.attr = Some(ATTR_LOCK_STATE)
        /\ ev'.arg = Some(1)
        /\ "lock" \in ev'.to
        /\ value["lock"] # Some(STATE_LOCKED)
        /\ \A i \in 1..Len(tasks) : tasks[i].wait # "lock")
       => /\ lastEvent'.type = Some(EVENT_TYPE_AUTO_LOCK)
          /\ lastEvent'.time = Some(now')]_vars

\* C24 (as claimed): a pushed locked state that a local write preceded is
\* not stamped: when the last step was the successful answer of a lock
\* command issued through the entity and the next step is a push of raw 1
\* for the lock state, that push leaves the last-event fields as they were.
C24_LocalLockNotStampedAuto ==
    [][(/\ ev.op = "write"
        /\ ev.ent = "lock"
        /\ ev.arg = Some(STATE_LOCKED)
        /\ ev.out = "ok"
        /\ ev'.op = "push"
        /\ ev'.attr = Some(ATTR_LOCK_STATE)
        /\ ev'.arg = Some(1)
        /\ "lock" \in ev'.to)
       => lastEvent' = lastEvent]_vars

\* C25: the last-user sensor's value is "Unknown" in every reachable state,
\* whatever activation, timer tick or push (of any attribute id and value)
\* has happened, and the sensor issues no remote read or write: none of its
\* steps issues a call and no remote call of it is ever in flight.
C25_LastUserStaysUnknown ==
    "lastuser" \in present =>
        /\ value["lastuser"] = "Unknown"
        /\ \A i \in 1..Len(tasks) : tasks[i].ent # "lastuser"
        /\ ev.ent = "lastuser" => ev.issued = ""
        /\ initReads["lastuser"] = 0

C25_Witness ==
    /\ ev.op = "push"
    /\ "lastuser" \in ev.to
    /\ ev.attr = Some(ATTR_LOCK_STATE)
    /\ ev.arg = Some(1)
    /\ timer["lastuser"]
    /\ value["lastuser"] = "Unknown"

----------------------------------------------------------------------------
(* The settled device.  One polled entity is active with no call in        *)
(* flight, showing any value and either availability; from then on its     *)
(* attribute holds one in-domain raw value, every read of it returns that  *)
(* value, the device reports nothing else, no user request is made and the *)
(* entity is not removed.  The timer keeps ticking and every remote read   *)
(* is answered.                                                            *)

\* raw values inside the domain of each attribute
InDomain(e) ==
    CASE e \in {"lock", "door"} -> {Some(0), Some(1)}
      [] e = "relock" -> {Some(native_min_value), Some(native_max_value)}
      [] e \in Selectors -> {Some(0), Some(3)}
      [] e = "firmware" -> {[int |-> TRUE, v |-> Some(<<258, 772>>)],
                            [int |-> TRUE, v |-> Some(<<32768, 0>>)]}

\* the mirrored value that stands for raw value raw of entity e
DecodedRemote(e, raw) ==
    CASE e = "lock" -> IF raw = Some(1) THEN Some(STATE_LOCKED) ELSE Some(STATE_UNLOCKED)
      [] e = "door" -> Some(raw = Some(0))
      [] e = "relock" -> raw[1]
      [] e \in Selectors -> raw[1]
      [] e = "firmware" -> IF raw.v = Some(<<258, 772>>) THEN "1.2.3.4" ELSE "128.0.0.0"

InitSettled ==
    \E e \in Polled :
        /\ present = {e}
        /\ phase = [x \in Entities |-> IF x = e THEN "active" ELSE "created"]
        /\ listener = [x \in Entities |-> x = e /\ e \in AddsListener]
        /\ timer = [x \in Entities |-> x = e]
        /\ onRemove = [x \in Entities |->
                         CASE x # e -> {}
                           [] x = e /\ e \in AddsListener -> {"listener", "timer"}
                           [] OTHER -> {"timer"}]
        /\ \E r \in InDomain(e), a \in BOOLEAN,
              shown \in {InitialValue(e)} \cup {DecodedRemote(e, q) : q \in InDomain(e)} :
             /\ remote = [x \in Entities |-> IF x = e THEN r ELSE None]
             /\ value = [x \in Entities |-> IF x = e THEN shown ELSE InitialValue(x)]
             /\ available = [x \in Entities |-> x # e \/ a]
             /\ lastOp = [x \in Entities |->
                            CASE x # e -> "none"
                              [] x = e /\ a -> "ok"
                              [] OTHER -> "fault"]
             /\ obtained = IF shown = InitialValue(e) THEN {} ELSE {e}
        /\ lastEvent = NoEvent
        /\ now = 0
        /\ tasks = <<>>
        /\ initReads = [x \in Entities |-> IF x = e THEN 1 ELSE 0]
        /\ pub = NoPub
        /\ ev = Step

\* a read of the settled attribute returns the value it holds
SettledReadAnswer(i) ==
    /\ i \in 1..Len(tasks)
    /\ ReadAnswered(i, {[out |-> "ok", raw |-> remote[tasks[i].ent]]})

\* the device reports the value its attribute holds
SettledPush ==
    \E e \in present \ {"firmware"} : Push(AttrId(e), remote[e])

\* the read of the event masks may still raise: _update_event_data swallows it
NextSettled ==
    \/ \E e \in Entities : _async_update(e)
    \/ \E i \in 1..MaxTasks + 1 : SettledReadAnswer(i)
    \/ \E i \in 1..MaxTasks + 1 : _update_event_data(i)
    \/ SettledPush
    \/ Clock

SpecSettled ==
    /\ InitSettled
    /\ [][NextSettled]_vars
    /\ WF_vars(\E e \in Entities : _async_update(e))
    /\ WF_vars(\E i \in 1..MaxTasks + 1 : SettledReadAnswer(i))
    /\ WF_vars(\E i \in 1..MaxTasks + 1 : _update_event_data(i))

\* C26: eventual consistency.  For an active entity whose remote attribute
\* holds a fixed in-domain raw value from some point on, with every read
\* returning it, no user request, and the timer ticking and the reads being
\* answered again and again, eventually the mirrored value is the decoded
\* remote value and the availability flag is true, and both stay so.
C26_EventuallyConsistent ==
    \A e \in Polled :
        <>[](e \in present =>
               /\ value[e] = DecodedRemote(e, remote[e])
               /\ available[e])

C26_Witness ==
    /\ ev.op = "read"
    /\ ev.kind = "timer"
    /\ ev.ent = "relock"
    /\ remote["relock"] = Some(native_max_value)
    /\ value["relock"] = native_max_value
    /\ available["relock"]
    /\ tasks = <<>>

\* C27 (as claimed): no stale overwrite.  When the last step updated an
\* entity's mirrored value, by a push of its own attribute that it published
\* or by the successful answer of a write, while one of its reconcile reads
\* was in flight, the answer of that earlier read in the next step does not
\* replace the newer value.
C27_NoStaleOverwrite ==
    [][(/\ ev'.op = "read"
        /\ ev'.out = "ok"
        /\ \/ /\ ev.op = "push"
              /\ ev'.ent \in ev.to
              /\ Mirrors(ev'.ent, ev.attr)
              /\ pub[ev'.ent] = 1
           \/ /\ ev.op = "write"
              /\ ev.ent = ev'.ent
              /\ ev.out = "ok")
       => value'[ev'.ent] = value[ev'.ent]]_vars

\* C28 (as claimed): once an entity has been deactivated it never changes
\* its mirrored value or availability and never publishes state again, also
\* when a read or a write that was in flight at the deactivation is answered
\* afterwards.
C28_RemovedEntityIsQuiet ==
    [][\A e \in present :
         phase[e] = "removed" =>
             /\ value'[e] = value[e]
             /\ available'[e] = available[e]
             /\ pub'[e] = 0]_vars

\* C29: during a lock reconcile the read of the three operation event masks
\* is issued only by the answer of a lock-state read that did not raise, and
\* by every such answer; a communication fault of that read, like its
\* success, changes neither the lock state nor the availability flag the
\* lock-state read left, raises nothing, and ends the reconcile with one
\* publication.
C29_EventReadIsHarmless ==
    [][/\ ev'.issued = "events" =>
            (ev'.op = "read" /\ ev'.ent = "lock" /\ ev'.out # "fault")
       /\ (ev'.op = "read" /\ ev'.ent = "lock") =>
            (ev'.issued = "events" <=> ev'.out # "fault")
       /\ ev'.op = "events" =>
            /\ ev'.ent = "lock"
            /\ value' = value
            /\ available' = available
            /\ lastEvent' = lastEvent
            /\ ev'.raised = ""
            /\ pub'["lock"] = 1]_vars

C29_Witness ==
    /\ ev.op = "events"
    /\ ev.out = "fault"
    /\ ev.kind = "timer"
    /\ value["lock"] = Some(STATE_LOCKED)
    /\ available["lock"]
    /\ pub["lock"] = 1

\* C30 (as claimed): the lock's last-event metadata is coherent in every
\* reachable state: the actor "Home Assistant" is exposed only together
\* with the event type rf_unlock, never with auto_lock, and an event time
\* is exposed exactly when an event type is, both stamped in one step.
C30_LastEventCoherent ==
    /\ lastEvent.user = Some("Home Assistant") =>
         lastEvent.type = Some(EVENT_TYPE_RF_UNLOCK)
    /\ ~(/\ lastEvent.user = Some("Home Assistant")
          /\ lastEvent.type = Some(EVENT_TYPE_AUTO_LOCK))
    /\ lastEvent.time = None <=> lastEvent.type = None

====
